---- MODULE Spec2Model ----
(***************************************************************************)
(* Consumer-complaints ETL: the download wrapper (extract/download_data.py),*)
(* the batch load into a staging table and its reconciliation into the main *)
(* table (load/load_data.py), and the HTTP endpoints that start them        *)
(* (api/routes/complaints.py).                                              *)
(*                                                                          *)
(* A complaint record is reduced to its key (complaint_id) and one non-key  *)
(* column (product): the seventeen non-key columns are all treated alike by *)
(* every statement of the program.  A table's contents are a bag of rows.   *)
(***************************************************************************)
EXTENDS Integers, Sequences, FiniteSets, TLC

\* ------------------------------------------------------------------ bounds
\* Longest source file, in rows.
MaxRows == 2
\* Most requests the download endpoint is followed through.
MaxCalls == 3

\* ------------------------------------------------------- program constants
MIN_BATCH_SIZE == 1
MAX_BATCH_SIZE == 1000

\* ------------------------------------------------------------ input domains
Procs == {1, 2}
Ids == {1, 2}
Products == {"A", "B"}
Rows == [id : Ids, product : Products]

Row(i, v) == [id |-> i, product |-> v]

\* The contents the source file can have when a load opens it.
Files == UNION {[1..n -> Rows] : n \in 1..MaxRows}
\* The source files of the concurrent-load specification.
ConcFiles == {<<Row(1, "A"), Row(2, "A")>>, <<Row(1, "B")>>}
NoFile == <<>>
\* batch_size query parameters tried at the endpoint.
BatchSizes == {0, 1, 2, 1000, 1001}
ConcBatchSizes == {1}
\* Contents the provider's archive can give the expected file.
Versions == {1, 2}

VARIABLES
    main,          \* consumer_complaints: [exists, pk, rows]
    temp,          \* temp_consumer_complaints: [exists, pk, rows]
    pc,            \* per request: the step of load_all_data_to_database it is at
    resp,          \* per request: HTTP status of the last response (0: none yet)
    err,           \* per request: what made the last invocation fail
    bsize,         \* per request: batch_size
    file,          \* per request: the source file as read by the invocation
    pos,           \* per request: rows of the file already appended
    seen,          \* per request: result of the last checkfirst / exists query
    log,           \* per request: steps the invocation has started, in order
    mainAtStart,   \* per request: rows of main when the invocation started
    staleIds,      \* per request: ids left staged by ended runs when it started
    repeat,        \* per request: the run before succeeded on the same file
    interfered,    \* per request: another invocation changed a table meanwhile
    dpc,           \* download_dataset: the step it is at
    dresp,         \* download endpoint: HTTP status of the last response
    dirExists,     \* os.path.exists(download_path)
    disk,          \* contents of data_path (0: the file does not exist)
    diskAtCall,    \* contents of data_path when the current call started
    calls,         \* requests the download endpoint has taken so far
    fetchCalls,    \* calls of api.dataset_download_files so far
    fetched,       \* the current call invoked api.dataset_download_files
    authed         \* the current call invoked api.authenticate

loadVars == <<main, temp, pc, resp, err, bsize, file, pos, seen, log,
              mainAtStart, staleIds, repeat, interfered>>
downloadVars == <<dpc, dresp, dirExists, disk, diskAtCall, calls, fetchCalls, fetched, authed>>
vars == <<main, temp, pc, resp, err, bsize, file, pos, seen, log,
          mainAtStart, staleIds, repeat, interfered,
          dpc, dresp, dirExists, disk, diskAtCall, calls, fetchCalls, fetched, authed>>

\* ------------------------------------------------------------------ tables
EmptyRows == [r \in Rows |-> 0]
NoTable == [exists |-> FALSE, pk |-> FALSE, rows |-> EmptyRows]

\* Table(...complaint_id Integer primary_key=True).create(engine)
CreatedTable == [exists |-> TRUE, pk |-> TRUE, rows |-> EmptyRows]

\* A DROP TABLE whose transaction is never committed.
DropTableNotCommitted(t) == t

\* Table(table_name, metadata).drop(engine): the table is gone.
DropTable(t) == NoTable

\* The table pandas' to_sql creates when the target is absent: columns inferred
\* from the dataframe, no primary key.
InferredTable == [exists |-> TRUE, pk |-> FALSE, rows |-> EmptyRows]

Min(a, b) == IF a < b THEN a ELSE b

KeysOf(rows) == {r.id : r \in {x \in Rows : rows[x] > 0}}
CountOfId(rows, i) ==
    LET S == {r \in Rows : r.id = i}
        RECURSIVE Sum(_)
        Sum(T) == IF T = {} THEN 0
                  ELSE LET r == CHOOSE x \in T : TRUE IN rows[r] + Sum(T \ {r})
    IN Sum(S)
SeqIds(s) == {s[k].id : k \in 1..Len(s)}
HasRepeatedId(s) == \E j, k \in 1..Len(s) : j # k /\ s[j].id = s[k].id

RECURSIVE AddAll(_, _)
AddAll(rows, s) ==
    IF s = <<>> THEN rows
    ELSE AddAll([rows EXCEPT ![Head(s)] = @ + 1], Tail(s))

\* ------------------------------------------------------------ Batch Reader
\* pd.read_csv(file_path, chunksize=batch_size): the chunk that starts after
\* `done` rows.
NextBatch(f, bs, done) == SubSeq(f, done + 1, Min(done + bs, Len(f)))

RECURSIVE BatchesFrom(_, _, _)
BatchesFrom(f, bs, done) ==
    IF done >= Len(f) THEN <<>>
    ELSE <<NextBatch(f, bs, done)>> \o BatchesFrom(f, bs, done + Len(NextBatch(f, bs, done)))

\* read_data_in_batches: every chunk of the file, in file order.
read_data_in_batches(f, bs) == BatchesFrom(f, bs, 0)

\* ------------------------------------------------------------- Batch Writer
\* INSERT of a batch into a table: a primary key on complaint_id rejects the
\* whole statement when a key is already there or comes twice in the batch.
UniqueViolation(t, batch) ==
    t.pk /\ (HasRepeatedId(batch) \/ SeqIds(batch) \cap KeysOf(t.rows) # {})

\* dataframe.to_sql(..., if_exists="append"): the rows of the batch are added.
insert_data_to_sql(t, batch) == [t EXCEPT !.rows = AddAll(@, batch)]

\* -------------------------------------------------------- Upsert Reconciler
\* SELECT DISTINCT ON (complaint_id) * FROM temp: one row for every key, which
\* one is left to the engine.
DistinctOn(rows) ==
    {f \in [KeysOf(rows) -> Rows] : \A k \in KeysOf(rows) : f[k].id = k /\ rows[f[k]] > 0}

\* ON CONFLICT (complaint_id) DO NOTHING.
UpsertRowDoNothing(rows, r) ==
    IF r.id \in KeysOf(rows) THEN rows ELSE [rows EXCEPT ![r] = @ + 1]

\* A plain INSERT into a main table that has lost its key.
UpsertRowInsertOnly(rows, r) == [rows EXCEPT ![r] = @ + 1]

\* INSERT ... ON CONFLICT (complaint_id) DO UPDATE SET <every non-key column> =
\* EXCLUDED.<column>, for one proposed row.
UpsertRow(rows, r) ==
    IF r.id \in KeysOf(rows)
    THEN [x \in Rows |-> IF x.id # r.id THEN rows[x]
                         ELSE IF x = r THEN CountOfId(rows, r.id) ELSE 0]
    ELSE [rows EXCEPT ![r] = @ + 1]

RECURSIVE UpsertAll(_, _, _)
UpsertAll(rows, pick, keys) ==
    IF keys = {} THEN rows
    ELSE LET k == CHOOSE x \in keys : TRUE
         IN UpsertAll(UpsertRow(rows, pick[k]), pick, keys \ {k})

\* The statement of upsert_data_from_temp_table applied to main for one outcome
\* of the DISTINCT ON.
UpsertStatement(rows, pick) == UpsertAll(rows, pick, DOMAIN pick)

\* A failed statement that keeps the rows it had already written.
RolledBackPartly(before, after) ==
    IF after = before THEN before
    ELSE LET r == CHOOSE x \in Rows : after[x] # before[x]
         IN [before EXCEPT ![r] = after[r]]

\* `with engine.connect() as conn:` left by an exception before conn.commit():
\* the transaction is rolled back.
RolledBack(before, after) == before

\* ----------------------------------------------------------------- API Layer
\* Query(MAX_BATCH_SIZE, ge=MIN_BATCH_SIZE) without the upper limit.
ValidBatchSizeNoMax(bs) == bs >= MIN_BATCH_SIZE

\* Query(MAX_BATCH_SIZE, ge=MIN_BATCH_SIZE, le=MAX_BATCH_SIZE)
ValidBatchSize(bs) == bs >= MIN_BATCH_SIZE /\ bs <= MAX_BATCH_SIZE

\* ---------------------------------------------------------- Load Orchestrator
\* A load that returns after the reconcile and never drops the staging table.
StepAfterNoFinalDrop(l) ==
    CASE l = "drop1" -> "ensure_main"
      [] l = "drop1x" -> "ensure_main"
      [] l = "ensure_main" -> "ensure_temp"
      [] l = "ensure_mainx" -> "ensure_temp"
      [] l = "ensure_temp" -> "open"
      [] l = "ensure_tempx" -> "open"
      [] l = "open" -> "append"
      [] l = "append" -> "appendx"
      [] l = "appendx" -> "upsert"
      [] OTHER -> "idle"

\* The statement after a step of load_all_data_to_database.
StepAfter(l) ==
    CASE l = "drop1" -> "ensure_main"
      [] l = "drop1x" -> "ensure_main"
      [] l = "ensure_main" -> "ensure_temp"
      [] l = "ensure_mainx" -> "ensure_temp"
      [] l = "ensure_temp" -> "open"
      [] l = "ensure_tempx" -> "open"
      [] l = "open" -> "append"
      [] l = "append" -> "appendx"
      [] l = "appendx" -> "upsert"
      [] l = "upsert" -> "drop2"
      [] OTHER -> "idle"

\* An orchestrator that catches the step's exception and goes on.
AfterFailureGoOn(l) == StepAfter(l)

\* No step of the orchestrator catches: the exception leaves
\* load_all_data_to_database and the endpoint answers 500.
AfterFailure(l) == "idle"

Entry(op, rows) == [op |-> op, rows |-> rows]

\* The steps of a complete load of file f with batch size bs.
StepsOf(f, bs) ==
    <<Entry("drop_temp", <<>>), Entry("ensure_main", <<>>), Entry("ensure_temp", <<>>)>>
    \o [k \in 1..Len(read_data_in_batches(f, bs)) |->
            Entry("append", read_data_in_batches(f, bs)[k])]
    \o <<Entry("reconcile", <<>>), Entry("drop_temp", <<>>)>>

IsPrefix(s, t) == Len(s) <= Len(t) /\ SubSeq(t, 1, Len(s)) = s

\* Another invocation is under way while p changes a table.
Track(p) ==
    interfered' = [q \in Procs |->
                      IF q = p THEN interfered[q]
                      ELSE interfered[q] \/
                           (pc[q] # "idle" /\ (temp' # temp \/ main' # main))]

Goto(p, l) ==
    /\ pc' = [pc EXCEPT ![p] = l]
    /\ resp' = [resp EXCEPT ![p] = IF l = "idle" THEN 200 ELSE @]
    /\ err' = err

\* The step raises: except Exception -> HTTPException(status_code=500).
Raise(p, kind) ==
    /\ pc' = [pc EXCEPT ![p] = AfterFailure(pc[p])]
    /\ resp' = [resp EXCEPT ![p] = 500]
    /\ err' = [err EXCEPT ![p] = kind]

Logged(p, op, rows) == log' = [log EXCEPT ![p] = Append(@, Entry(op, rows))]

\* Ids staged by invocations that have ended (those of a running one are not stale).
StaleIds(p) == IF \A q \in Procs \ {p} : pc[q] = "idle" THEN KeysOf(temp.rows) ELSE {}

\* POST /complaints/load_all?batch_size=bs
load_all_complaints(p, bs) ==
    /\ pc[p] = "idle"
    /\ IF ValidBatchSize(bs)
       THEN /\ pc' = [pc EXCEPT ![p] = "drop1"]
            /\ resp' = [resp EXCEPT ![p] = 0]
            /\ err' = [err EXCEPT ![p] = "none"]
            /\ bsize' = [bsize EXCEPT ![p] = bs]
            /\ file' = [file EXCEPT ![p] = IF resp[p] = 200 THEN @ ELSE NoFile]
            /\ pos' = [pos EXCEPT ![p] = 0]
            /\ seen' = [seen EXCEPT ![p] = FALSE]
            /\ log' = [log EXCEPT ![p] = <<>>]
            /\ mainAtStart' = [mainAtStart EXCEPT ![p] = main.rows]
            /\ staleIds' = [staleIds EXCEPT ![p] = StaleIds(p)]
            /\ repeat' = [repeat EXCEPT ![p] = FALSE]
            /\ interfered' = [interfered EXCEPT ![p] = FALSE]
       ELSE /\ resp' = [resp EXCEPT ![p] = 422]
            /\ err' = [err EXCEPT ![p] = "none"]
            /\ bsize' = [bsize EXCEPT ![p] = bs]
            /\ log' = [log EXCEPT ![p] = <<>>]
            /\ UNCHANGED <<pc, file, pos, seen, mainAtStart, staleIds, repeat, interfered>>
    /\ UNCHANGED <<main, temp>>
    /\ UNCHANGED downloadVars

\* drop_table_if_exists, table.drop(engine, checkfirst=True): the existence query.
DropCheck(p, faults) ==
    /\ pc[p] \in {"drop1", "drop2"}
    /\ Logged(p, "drop_temp", <<>>)
    /\ \E flt \in faults :
         IF flt THEN Raise(p, "fault") /\ seen' = seen
         ELSE /\ seen' = [seen EXCEPT ![p] = temp.exists]
              /\ IF temp.exists THEN Goto(p, IF pc[p] = "drop1" THEN "drop1x" ELSE "drop2x")
                 ELSE Goto(p, StepAfter(pc[p]))
    /\ UNCHANGED <<main, temp, bsize, file, pos, mainAtStart, staleIds, repeat, interfered>>
    /\ UNCHANGED downloadVars

\* drop_table_if_exists: DROP TABLE, issued because the query found the table.
DropExec(p, faults) ==
    /\ pc[p] \in {"drop1x", "drop2x"}
    /\ \E flt \in faults :
         IF flt THEN Raise(p, "fault") /\ temp' = temp
         ELSE IF ~temp.exists THEN Raise(p, "undefined_table") /\ temp' = temp
         ELSE temp' = DropTable(temp) /\ Goto(p, StepAfter(pc[p]))
    /\ UNCHANGED <<main, bsize, file, pos, seen, log, mainAtStart, staleIds, repeat>>
    /\ Track(p)
    /\ UNCHANGED downloadVars

\* create_table_if_not_exists, .create(engine, checkfirst=True): the existence query.
EnsureCheck(p, faults) ==
    /\ pc[p] \in {"ensure_main", "ensure_temp"}
    /\ Logged(p, pc[p], <<>>)
    /\ \E flt \in faults :
         IF flt THEN Raise(p, "fault") /\ seen' = seen
         ELSE LET there == IF pc[p] = "ensure_main" THEN main.exists ELSE temp.exists
              IN /\ seen' = [seen EXCEPT ![p] = there]
                 /\ IF there THEN Goto(p, StepAfter(pc[p]))
                    ELSE Goto(p, IF pc[p] = "ensure_main" THEN "ensure_mainx"
                                 ELSE "ensure_tempx")
    /\ UNCHANGED <<main, temp, bsize, file, pos, mainAtStart, staleIds, repeat, interfered>>
    /\ UNCHANGED downloadVars

\* create_table_if_not_exists: CREATE TABLE, issued because the query found none.
EnsureExec(p, faults) ==
    /\ pc[p] \in {"ensure_mainx", "ensure_tempx"}
    /\ \E flt \in faults :
         IF flt THEN Raise(p, "fault") /\ UNCHANGED <<main, temp>>
         ELSE IF pc[p] = "ensure_mainx"
              THEN IF main.exists THEN Raise(p, "duplicate_table") /\ UNCHANGED <<main, temp>>
                   ELSE main' = CreatedTable /\ temp' = temp /\ Goto(p, StepAfter(pc[p]))
              ELSE IF temp.exists THEN Raise(p, "duplicate_table") /\ UNCHANGED <<main, temp>>
                   ELSE temp' = CreatedTable /\ main' = main /\ Goto(p, StepAfter(pc[p]))
    /\ UNCHANGED <<bsize, file, pos, seen, log, mainAtStart, staleIds, repeat>>
    /\ Track(p)
    /\ UNCHANGED downloadVars

\* for batch in read_data_in_batches(data_path, batch_size): pd.read_csv opens
\* the file; its contents are whatever data_path holds at that moment.
OpenFile(p, files, faults) ==
    /\ pc[p] = "open"
    /\ \E flt \in faults :
         IF flt THEN Raise(p, "fault") /\ UNCHANGED <<file, repeat>>
         ELSE \E f \in files :
                /\ file' = [file EXCEPT ![p] = f]
                /\ repeat' = [repeat EXCEPT ![p] = (file[p] = f)]
                /\ Goto(p, StepAfter(pc[p]))
    /\ UNCHANGED <<main, temp, bsize, pos, seen, log, mainAtStart, staleIds, interfered>>
    /\ UNCHANGED downloadVars

\* The next chunk is read and handed to to_sql, which asks whether the table exists.
AppendCheck(p, faults) ==
    /\ pc[p] = "append"
    /\ Logged(p, "append", NextBatch(file[p], bsize[p], pos[p]))
    /\ \E flt \in faults :
         IF flt THEN Raise(p, "fault") /\ seen' = seen
         ELSE seen' = [seen EXCEPT ![p] = temp.exists] /\ Goto(p, StepAfter(pc[p]))
    /\ UNCHANGED <<main, temp, bsize, file, pos, mainAtStart, staleIds, repeat, interfered>>
    /\ UNCHANGED downloadVars

\* to_sql: CREATE TABLE when it found none, then the INSERT of the batch.
AppendInsert(p, faults) ==
    /\ pc[p] = "appendx"
    /\ LET batch == NextBatch(file[p], bsize[p], pos[p])
           target == IF seen[p] THEN temp ELSE InferredTable
           after == pos[p] + Len(batch)
       IN \E flt \in faults :
            IF flt THEN Raise(p, "fault") /\ UNCHANGED <<temp, pos>>
            ELSE IF seen[p] /\ ~temp.exists
                 THEN Raise(p, "undefined_table") /\ UNCHANGED <<temp, pos>>
            ELSE IF ~seen[p] /\ temp.exists
                 THEN Raise(p, "duplicate_table") /\ UNCHANGED <<temp, pos>>
            ELSE IF UniqueViolation(target, batch)
                 THEN Raise(p, "unique_violation") /\ UNCHANGED <<temp, pos>>
            ELSE /\ temp' = insert_data_to_sql(target, batch)
                 /\ pos' = [pos EXCEPT ![p] = after]
                 /\ Goto(p, IF after < Len(file[p]) THEN "append" ELSE StepAfter(pc[p]))
    /\ UNCHANGED <<main, bsize, file, seen, log, mainAtStart, staleIds, repeat>>
    /\ Track(p)
    /\ UNCHANGED downloadVars

\* upsert_data_from_temp_table: conn.execute(upsert_sql); conn.commit()
upsert_data_from_temp_table(p, faults) ==
    /\ pc[p] = "upsert"
    /\ Logged(p, "reconcile", <<>>)
    /\ IF ~temp.exists \/ ~main.exists
       THEN Raise(p, "undefined_table") /\ main' = main
       ELSE \E pick \in DistinctOn(temp.rows) : \E flt \in faults :
              IF flt
              THEN /\ Raise(p, "fault")
                   /\ main' = [main EXCEPT !.rows = RolledBack(@, UpsertStatement(@, pick))]
              ELSE /\ main' = [main EXCEPT !.rows = UpsertStatement(@, pick)]
                   /\ Goto(p, StepAfter(pc[p]))
    /\ UNCHANGED <<temp, bsize, file, pos, seen, mainAtStart, staleIds, repeat>>
    /\ Track(p)
    /\ UNCHANGED downloadVars

LoadStep(p, files, sizes, faults) ==
    \/ \E bs \in sizes : load_all_complaints(p, bs)
    \/ DropCheck(p, faults)
    \/ DropExec(p, faults)
    \/ EnsureCheck(p, faults)
    \/ EnsureExec(p, faults)
    \/ OpenFile(p, files, faults)
    \/ AppendCheck(p, faults)
    \/ AppendInsert(p, faults)
    \/ upsert_data_from_temp_table(p, faults)

LoadInit ==
    /\ main = NoTable
    /\ temp = NoTable
    /\ pc = [p \in Procs |-> "idle"]
    /\ resp = [p \in Procs |-> 0]
    /\ err = [p \in Procs |-> "none"]
    /\ bsize = [p \in Procs |-> MAX_BATCH_SIZE]
    /\ file = [p \in Procs |-> NoFile]
    /\ pos = [p \in Procs |-> 0]
    /\ seen = [p \in Procs |-> FALSE]
    /\ log = [p \in Procs |-> <<>>]
    /\ mainAtStart = [p \in Procs |-> EmptyRows]
    /\ staleIds = [p \in Procs |-> {}]
    /\ repeat = [p \in Procs |-> FALSE]
    /\ interfered = [p \in Procs |-> FALSE]

DownloadIdle ==
    /\ dpc = "idle"
    /\ dresp = 0
    /\ dirExists = FALSE
    /\ disk = 0
    /\ diskAtCall = 0
    /\ calls = 0
    /\ fetchCalls = 0
    /\ fetched = FALSE
    /\ authed = FALSE

Init == LoadInit /\ DownloadIdle

\* One client: every load_all request is answered before the next is sent.
Next == LoadStep(1, Files, BatchSizes, BOOLEAN)

Spec == Init /\ [][Next]_vars

\* Two clients whose load_all requests overlap.
ConcNext == \E p \in Procs : LoadStep(p, ConcFiles, ConcBatchSizes, {FALSE})

ConcSpec == Init /\ [][ConcNext]_vars

\* ---------------------------------------------------------------- Downloader
DownloadVarsInit ==
    /\ dpc = "idle"
    /\ dresp = 0
    /\ dirExists \in BOOLEAN
    /\ disk \in {0} \cup Versions
    /\ disk # 0 => dirExists
    /\ diskAtCall = disk
    /\ calls = 0
    /\ fetchCalls = 0
    /\ fetched = FALSE
    /\ authed = FALSE

DReturn(status) == dpc' = "idle" /\ dresp' = status

\* POST /complaints/download: download_complaints calls download_dataset.
download_complaints ==
    /\ dpc = "idle"
    /\ calls < MaxCalls
    /\ calls' = calls + 1
    /\ dpc' = "auth"
    /\ dresp' = 0
    /\ diskAtCall' = disk
    /\ fetched' = FALSE
    /\ authed' = FALSE
    /\ UNCHANGED <<dirExists, disk, fetchCalls>>
    /\ UNCHANGED loadVars

\* api = KaggleApi(); api.authenticate(): raises when the provider's client
\* finds no usable credentials.
Authenticate ==
    /\ dpc = "auth"
    /\ authed' = TRUE
    /\ \E ok \in BOOLEAN : IF ok THEN dpc' = "mkdir" /\ dresp' = dresp ELSE DReturn(500)
    /\ UNCHANGED <<dirExists, disk, diskAtCall, calls, fetchCalls, fetched>>
    /\ UNCHANGED loadVars

\* if not os.path.exists(download_path): os.makedirs(download_path)
EnsureDirectory ==
    /\ dpc = "mkdir"
    /\ dirExists' = TRUE
    /\ dpc' = "exists"
    /\ UNCHANGED <<dresp, disk, diskAtCall, calls, fetchCalls, fetched, authed>>
    /\ UNCHANGED loadVars

\* os.path.exists(data_path)
FilePresent(d) == d # 0

\* if os.path.exists(data_path): skip, return data_path; else: download.
CheckFile ==
    /\ dpc = "exists"
    /\ IF FilePresent(disk) THEN DReturn(200) ELSE dpc' = "fetch" /\ dresp' = dresp
    /\ UNCHANGED <<dirExists, disk, diskAtCall, calls, fetchCalls, fetched, authed>>
    /\ UNCHANGED loadVars

\* api.dataset_download_files(kaggle_dataset, path=download_path, unzip=True):
\* raises, or extracts an archive that holds the expected file or does not.
FetchDataset ==
    /\ dpc = "fetch"
    /\ fetchCalls' = fetchCalls + 1
    /\ fetched' = TRUE
    /\ \/ DReturn(500) /\ disk' = disk
       \/ dpc' = "verify" /\ dresp' = dresp /\ disk' \in {disk} \cup Versions
    /\ UNCHANGED <<dirExists, diskAtCall, calls, authed>>
    /\ UNCHANGED loadVars

\* if not os.path.exists(data_path): raise FileNotFoundError; return data_path
VerifyFile ==
    /\ dpc = "verify"
    /\ IF FilePresent(disk) THEN DReturn(200) ELSE DReturn(500)
    /\ UNCHANGED <<dirExists, disk, diskAtCall, calls, fetchCalls, fetched, authed>>
    /\ UNCHANGED loadVars

DownloadInit == LoadInit /\ DownloadVarsInit

DownloadNext ==
    \/ download_complaints
    \/ Authenticate
    \/ EnsureDirectory
    \/ CheckFile
    \/ FetchDataset
    \/ VerifyFile

\* The download endpoint, one request at a time.
DownloadSpec == DownloadInit /\ [][DownloadNext]_vars

\* ===================================================================== claims
Idle(p) == pc[p] = "idle"
Succeeded(p) == pc[p] = "idle" /\ resp[p] = 200
Failed(p) == pc[p] = "idle" /\ resp[p] = 500
InFile(f, r) == \E k \in 1..Len(f) : f[k] = r
LastOp(p) == IF log[p] = <<>> THEN "none" ELSE log[p][Len(log[p])].op

\* C1: a reconcile that succeeds leaves in main exactly one row for every
\* complaint id of the staging table, that row being one of the staging rows
\* with the id (also when main held the id with other values), and leaves no
\* complaint id twice in main.
C1_UpsertCorrect ==
    [][\A p \in Procs :
          (pc[p] = "upsert" /\ pc'[p] = "drop2") =>
             /\ \A i \in KeysOf(temp.rows) :
                   /\ CountOfId(main'.rows, i) = 1
                   /\ \E r \in Rows : r.id = i /\ main'.rows[r] = 1 /\ temp.rows[r] > 0
             /\ \A i \in Ids : CountOfId(main'.rows, i) <= 1]_vars

\* A reconcile has just overwritten the product of an id main already held.
C1_Witness ==
    \E p \in Procs : \E r, old \in Rows :
       /\ pc[p] = "drop2" /\ ~interfered[p]
       /\ r.id = old.id /\ r.product # old.product
       /\ mainAtStart[p][old] = 1 /\ temp.rows[r] > 0 /\ main.rows[r] = 1
       /\ main.rows[old] = 0

\* C2: a successful load that follows a successful load of the same file
\* leaves main as the first left it, with exactly one row per complaint id of
\* the file, equal to the file's (so the second run's staging) row.
C2_Idempotent ==
    \A p \in Procs :
       (Succeeded(p) /\ repeat[p]) =>
          /\ main.rows = mainAtStart[p]
          /\ \A i \in SeqIds(file[p]) :
                /\ CountOfId(main.rows, i) = 1
                /\ \E r \in Rows : r.id = i /\ main.rows[r] = 1 /\ InFile(file[p], r)

\* The second of two successful loads of one two-row file has returned.
C2_Witness ==
    \E p \in Procs :
       Succeeded(p) /\ repeat[p] /\ Len(file[p]) = 2 /\ KeysOf(main.rows) = Ids

\* C3: when load_all_data_to_database has returned normally the staging table
\* does not exist, whatever it was when the invocation started.
C3_StagingCleanup ==
    \A p \in Procs : Succeeded(p) => ~temp.exists

\* A load has succeeded that found a staging table with rows left behind.
C3_Witness ==
    \E p \in Procs :
       Succeeded(p) /\ staleIds[p] # {}
       /\ ~temp.exists

\* C4: appending a batch is never refused because of the key column: no load
\* fails on a complaint id that is already staged or comes twice in a batch.
C4_AppendIgnoresKey ==
    \A p \in Procs : err[p] # "unique_violation"

OutOfRange(bs) == bs < MIN_BATCH_SIZE \/ bs > MAX_BATCH_SIZE

\* C5: a load_all request whose batch_size is outside [1, 1000] is answered
\* 422 without a single step of the load: nothing is logged, no step is
\* pending, and main and the staging table are as they were.
C5_BatchSizeValidated ==
    /\ [](\A p \in Procs :
            OutOfRange(bsize[p]) => Idle(p) /\ resp[p] = 422 /\ log[p] = <<>>)
    /\ [][\A p \in Procs :
            (OutOfRange(bsize'[p]) /\ <<bsize[p], resp[p], log[p]>>' # <<bsize[p], resp[p], log[p]>>)
               => main' = main /\ temp' = temp]_vars

\* batch_size=1001 has been rejected while a staging table with rows exists.
C5_Witness ==
    \E p \in Procs :
       bsize[p] = 1001 /\ resp[p] = 422 /\ temp.exists /\ KeysOf(temp.rows) # {}

\* C6: a call that finds the file present makes no call to the provider's
\* client at all, leaves the file alone and returns the path: it cannot fail.
C6_NoProviderCall ==
    (dpc = "idle" /\ dresp # 0 /\ diskAtCall # 0) =>
       dresp = 200 /\ ~authed /\ ~fetched /\ disk = diskAtCall

\* What the skip path does keep: a call that finds the file present never
\* calls dataset_download_files and leaves the file alone; it does call
\* authenticate, it fails only if authenticate raises, and otherwise it
\* returns the path.
DownloadSkipsFetch ==
    /\ [](diskAtCall # 0 =>
            /\ ~fetched /\ disk = diskAtCall
            /\ dpc \in {"idle", "auth", "mkdir", "exists"}
            /\ (dpc = "idle" /\ dresp # 0 => authed))
    /\ [][(diskAtCall # 0 /\ dpc # "idle" /\ dpc' = "idle") =>
            /\ fetchCalls' = fetchCalls
            /\ (dresp' = 500 => dpc = "auth")
            /\ (dresp' # 500 => dresp' = 200 /\ dpc = "exists")]_vars

\* A later call has returned the path of a file an earlier call downloaded.
DownloadSkipReached ==
    /\ dpc = "idle" /\ dresp = 200 /\ calls >= 2
    /\ diskAtCall # 0 /\ fetchCalls = 1 /\ ~fetched /\ authed

\* C7: the steps an invocation has started are a prefix of drop staging,
\* ensure main, ensure staging, one append per batch in file order, reconcile,
\* drop staging; the reconcile starts with every row of the file appended and
\* the last drop only after the reconcile went through; the invocation
\* succeeds only after all the steps; a step that fails ends
\* the invocation with a 500, changes no table and undoes nothing, and no
\* step follows it.
C7_SequentialTerminal ==
    /\ [](\A p \in Procs :
            /\ Len(log[p]) <= 3 => IsPrefix(log[p], StepsOf(<<>>, bsize[p]))
            /\ Len(log[p]) > 3 => IsPrefix(log[p], StepsOf(file[p], bsize[p]))
            /\ Succeeded(p) => log[p] = StepsOf(file[p], bsize[p])
            /\ LastOp(p) = "reconcile" => pos[p] = Len(file[p])
            /\ pc[p] \in {"drop2", "drop2x"} => LastOp(p) \in {"reconcile", "drop_temp"}
            /\ resp[p] = 500 => Idle(p))
    /\ [][\A p \in Procs :
            /\ (~Idle(p) /\ resp'[p] = 500) => main' = main /\ temp' = temp
            /\ (resp[p] = 500 /\ resp'[p] = 500) => log'[p] = log[p]]_vars

\* The second append of a load has failed and the first batch is still staged.
C7_Witness ==
    \E p \in Procs :
       /\ Failed(p) /\ Len(log[p]) = 5 /\ LastOp(p) = "append"
       /\ temp.exists /\ InFile(file[p], CHOOSE r \in Rows : temp.rows[r] > 0)
       /\ KeysOf(temp.rows) # {}

\* C8: the reconcile step either applies to main a row for every staging key
\* and goes on, or fails with main exactly as it was.
C8_ReconcileAtomic ==
    [][\A p \in Procs :
          (pc[p] = "upsert" /\ pc'[p] # "upsert") =>
             \/ resp'[p] = 500 /\ main' = main
             \/ /\ pc'[p] = "drop2" /\ resp'[p] # 500
                /\ \A i \in KeysOf(temp.rows) :
                      \E r \in Rows : r.id = i /\ temp.rows[r] > 0 /\ main'.rows[r] > 0]_vars

\* A reconcile has failed with staged rows that main does not hold.
C8_Witness ==
    \E p \in Procs :
       /\ Failed(p) /\ LastOp(p) = "reconcile" /\ err[p] = "fault"
       /\ main.rows = mainAtStart[p]
       /\ \E r \in Rows : temp.rows[r] > 0 /\ main.rows[r] = 0

StateError(p) == err[p] \in {"undefined_table", "duplicate_table", "unique_violation"}

\* C9: the guarantees of a lone invocation are lost only to overlap: an
\* invocation that returns success without another having changed a table
\* meanwhile has every row of its file in main, and one that fails on the
\* state of the tables was either overlapped or read a file with a repeated
\* id.  (That overlap does lose them is C9_Witness.)
C9_OnlyOverlapBreaks ==
    /\ [](\A p \in Procs :
            (Failed(p) /\ StateError(p) /\ ~interfered[p]) =>
               err[p] = "unique_violation" /\ HasRepeatedId(file[p]))
    /\ [][\A p \in Procs :
            (~Idle(p) /\ pc'[p] = "idle" /\ resp'[p] = 200 /\ ~interfered'[p]) =>
               \A k \in 1..Len(file[p]) : main'.rows[file[p][k]] = 1]_vars

\* One invocation has returned success with an id of its file absent from
\* main, and the other has failed on a file it would load alone.
C9_Witness ==
    \E p, q \in Procs :
       /\ p # q
       /\ Succeeded(p) /\ SeqIds(file[p]) \ KeysOf(main.rows) # {}
       /\ Failed(q) /\ StateError(q) /\ file[q] # NoFile /\ ~HasRepeatedId(file[q])

\* C10: after a successful load main holds, for every id of the load's file,
\* the file's row and nothing else, and for every other id what it held when
\* the load started: rows the staging table held before the load are not in it.
C10_NoStaleRows ==
    \A p \in Procs :
       Succeeded(p) =>
          \A r \in Rows :
             main.rows[r] = IF r.id \in SeqIds(file[p])
                            THEN (IF InFile(file[p], r) THEN 1 ELSE 0)
                            ELSE mainAtStart[p][r]

\* A load has succeeded that found staged rows of a failed run whose id is
\* not in its own file, and main has no row for that id.
C10_Witness ==
    \E p \in Procs : \E i \in Ids :
       /\ Succeeded(p) /\ i \in staleIds[p]
       /\ i \notin SeqIds(file[p]) /\ i \notin KeysOf(main.rows)

====
